---- MODULE Spec2Model ----
(***************************************************************************)
(* Minesweeper (SpiridonVlad/Minesweeper): the board engine                *)
(* MinesweeperLogic and the part of the pygame front end Minesweeper that  *)
(* drives it (handle_click, move_view, draw_timer, the restart loop of     *)
(* __main__).  Line numbers refer to src/Minesweeper.py unless a          *)
(* definition says otherwise.                                              *)
(***************************************************************************)
EXTENDS Integers, Sequences, FiniteSets, TLC

(* ---- bounds of the model ---------------------------------------------- *)
MaxRows == 2
MaxCols == 4
MaxCells == 4
\* the largest mine count requested (it may exceed the number of cells)
MaxMines == 2
\* the largest number of flags the player keeps on the board at a time
MaxFlags == 1
\* the largest number of flags on the board while reveal_cell is followed
\* one iteration at a time
MaxFlagsLoop == 2
\* The source sets VISIBLE_SIZE = 20 (line 27); it is scaled down here so
\* that boards within the bounds are larger than the viewport and
\* move_view has an effect.
VISIBLE_SIZE == 2
\* grids of the specifications that call the engine directly
EngRows == 3
EngCols == 3
EngCells == 9

(* ---- program constants ------------------------------------------------ *)
CELL_SIZE == 30
GRID_X == 20
GRID_Y == 48

VARIABLES pc, rows, cols, mines, board, mine_positions, revealed, flags,
          game_over, win, offset, ret, first_click,
          queue, marks, enqueues, dequeues, asked

\* the queue of a reveal_cell call that is running, with the number of
\* times the call has set revealed[cr][cc] for each cell, appended each
\* cell to the queue, and popped the queue
loop_vars == <<queue, marks, enqueues, dequeues>>

vars == <<pc, rows, cols, mines, board, mine_positions, revealed, flags,
          game_over, win, offset, ret, first_click, loop_vars, asked>>

Min(a, b) == IF a < b THEN a ELSE b
Max(a, b) == IF a > b THEN a ELSE b

\* the cells of the grid, (row, col) with 0-based indices
Cells == (0 .. rows - 1) \X (0 .. cols - 1)

\* no first-click position given (None, None)
None == <<>>

(* ---- MinesweeperLogic ------------------------------------------------- *)

\* the fields as __init__ leaves them before initialize_board()
blank_board == [p \in Cells |-> 0]
blank_marks == [p \in Cells |-> FALSE]
\* the per-cell counts of a reveal_cell call that has done nothing yet
blank_counts == [p \in Cells |-> 0]

\* a variant that leaves out the four diagonal cells
get_adjacent_cells_orthogonal(row, coll) ==
    LET all == <<<<row - 1, coll>>, <<row, coll - 1>>, <<row, coll>>,
                 <<row, coll + 1>>, <<row + 1, coll>>>>
        inb(p) == 0 <= p[1] /\ p[1] < rows /\ 0 <= p[2] /\ p[2] < cols
    IN  SelectSeq(all, inb)

\* get_adjacent_cells: the in-bounds cells of the 3x3 block around
\* (row, coll), the cell itself included, in the order they are yielded
Offsets3 == <<-1, 0, 1>>
get_adjacent_cells(row, coll) ==
    LET all == [k \in 1 .. 9 |->
                  <<row + Offsets3[((k - 1) \div 3) + 1],
                    coll + Offsets3[((k - 1) % 3) + 1]>>]
        inb(p) == 0 <= p[1] /\ p[1] < rows /\ 0 <= p[2] /\ p[2] < cols
    IN  SelectSeq(all, inb)

Range(s) == {s[k] : k \in 1 .. Len(s)}

\* [(r, c) for r in range(rows) for c in range(cols)]
all_positions_full ==
    [k \in 1 .. rows * cols |-> <<(k - 1) \div cols, (k - 1) % cols>>]

\* a variant that protects the first-click cell only, not the cells
\* around it
candidate_pool_cell_only(fc) ==
    IF fc # None
    THEN LET keep(p) == p # fc
         IN  SelectSeq(all_positions_full, keep)
    ELSE all_positions_full

\* the candidate pool of place_mines
candidate_pool(fc) ==
    IF fc # None
    THEN LET protected_cells ==
                 {fc} \cup Range(get_adjacent_cells(fc[1], fc[2]))
             keep(p) == p \notin protected_cells
         IN  SelectSeq(all_positions_full, keep)
    ELSE all_positions_full

\* a variant that draws from 0 .. i-1, as random.randrange(0, i) does
DrawSet_exclusive(n, m) ==
    {d \in [Max(0, n - m) .. (n - 1) -> 0 .. (n - 1)] :
        \A i \in DOMAIN d : d[i] < i}

\* the values random.randint(0, i) can return in the iterations of the
\* placement loop over a pool of n positions
DrawSet(n, m) ==
    {d \in [Max(0, n - m) .. (n - 1) -> 0 .. (n - 1)] :
        \A i \in DOMAIN d : d[i] <= i}

\* a variant that takes the drawn position without swapping it out of the
\* unplaced prefix, so a position can be drawn twice
RECURSIVE place_loop_no_swap(_, _, _, _, _, _)
place_loop_no_swap(all_positions, i, stop, draws, mp, b) ==
    IF i <= stop
    THEN [ok |-> TRUE, mine_positions |-> mp, board |-> b,
          all_positions |-> all_positions, i |-> i]
    ELSE IF i < 0
    THEN [ok |-> FALSE, mine_positions |-> mp, board |-> b,
          all_positions |-> all_positions, i |-> i]
    ELSE LET p == all_positions[draws[i] + 1]
         IN  place_loop_no_swap(all_positions, i - 1, stop, draws,
                                mp \cup {p}, [b EXCEPT ![p] = -1])

\* a variant that stops without an error when the pool is used up
RECURSIVE place_loop_clamped(_, _, _, _, _, _)
place_loop_clamped(all_positions, i, stop, draws, mp, b) ==
    IF i <= stop \/ i < 0
    THEN [ok |-> TRUE, mine_positions |-> mp, board |-> b,
          all_positions |-> all_positions, i |-> i]
    ELSE LET j == draws[i]
             swapped == [all_positions EXCEPT ![i + 1] = all_positions[j + 1],
                                              ![j + 1] = all_positions[i + 1]]
             p == swapped[i + 1]
         IN  place_loop_clamped(swapped, i - 1, stop, draws,
                                mp \cup {p}, [b EXCEPT ![p] = -1])

\* the loop of place_mines; i is the 0-based index of the source, the
\* sequence is 1-based.  random.randint(0, i) raises ValueError for i < 0.
\* The result holds the fields and locals as the loop leaves them.
RECURSIVE place_loop(_, _, _, _, _, _)
place_loop(all_positions, i, stop, draws, mp, b) ==
    IF i <= stop
    THEN [ok |-> TRUE, mine_positions |-> mp, board |-> b,
          all_positions |-> all_positions, i |-> i]
    ELSE IF i < 0
    THEN [ok |-> FALSE, mine_positions |-> mp, board |-> b,
          all_positions |-> all_positions, i |-> i]
    ELSE LET j == draws[i]
             swapped == [all_positions EXCEPT ![i + 1] = all_positions[j + 1],
                                              ![j + 1] = all_positions[i + 1]]
             p == swapped[i + 1]
         IN  place_loop(swapped, i - 1, stop, draws,
                        mp \cup {p}, [b EXCEPT ![p] = -1])

place_mines(fc, draws) ==
    LET all_positions == candidate_pool(fc)
        positions_count == Len(all_positions)
        done == place_loop(all_positions, positions_count - 1,
                           positions_count - mines - 1, draws, {},
                           blank_board)
    IN  [ok |-> done.ok, mine_positions |-> done.mine_positions,
         board |-> done.board, all_positions |-> done.all_positions,
         iterations |-> positions_count - 1 - done.i]

\* calculate_numbers: mine cells keep -1, every other cell gets the number
\* of in-bounds cells in the 8 directions whose value is -1.  The loop
\* writes only non-mine cells and reads only the -1 marks, so the in-place
\* update equals this simultaneous one.
directions == {<<-1, -1>>, <<-1, 0>>, <<-1, 1>>, <<0, -1>>, <<0, 1>>,
               <<1, -1>>, <<1, 0>>, <<1, 1>>}
\* a variant without the lower bounds checks, where an index of -1 reads
\* the last row or column as a Python list does
calculate_numbers_wrap(b) ==
    [p \in Cells |->
        IF b[p] = -1 THEN -1
        ELSE Cardinality({d \in directions :
                            LET new_r == p[1] + d[1]
                                new_c == p[2] + d[2]
                            IN  /\ new_r < rows
                                /\ new_c < cols
                                /\ b[<<new_r % rows, new_c % cols>>] = -1})]

\* a variant that counts the mines in the four orthogonal directions only
calculate_numbers_orthogonal(b) ==
    [p \in Cells |->
        IF b[p] = -1 THEN -1
        ELSE Cardinality({d \in {<<-1, 0>>, <<0, -1>>, <<0, 1>>, <<1, 0>>} :
                            LET new_r == p[1] + d[1]
                                new_c == p[2] + d[2]
                            IN  /\ 0 <= new_r /\ new_r < rows
                                /\ 0 <= new_c /\ new_c < cols
                                /\ b[<<new_r, new_c>>] = -1})]

calculate_numbers(b) ==
    [p \in Cells |->
        IF b[p] = -1 THEN -1
        ELSE Cardinality({d \in directions :
                            LET new_r == p[1] + d[1]
                                new_c == p[2] + d[2]
                            IN  /\ 0 <= new_r /\ new_r < rows
                                /\ 0 <= new_c /\ new_c < cols
                                /\ b[<<new_r, new_c>>] = -1})]

\* a Python list index: a negative index counts from the end of the list
\* (an index outside -n .. n-1 raises IndexError, see in_index)
wrap(p) == <<p[1] % rows, p[2] % cols>>

\* whether a list of length n accepts i as an index
in_index(i, n) == -n <= i /\ i < n

is_mine(row, coll) == <<row, coll>> \in mine_positions

get_adjacent(row, coll) == board[wrap(<<row, coll>>)]

\* a variant that appends the flagged neighbours of a zero cell too
loop_body_open_flagged(qu, rev, flg) ==
    LET cur == Head(qu)
        rest == Tail(qu)
    IN  IF rev[wrap(cur)]
        THEN [queue |-> rest, revealed |-> rev, marked |-> FALSE,
              appended |-> <<>>]
        ELSE LET rev1 == [rev EXCEPT ![wrap(cur)] = TRUE]
                 open(p) == ~rev1[p]
                 appended == IF board[wrap(cur)] = 0
                             THEN SelectSeq(get_adjacent_cells(cur[1], cur[2]),
                                            open)
                             ELSE <<>>
             IN  [queue |-> rest \o appended, revealed |-> rev1,
                  marked |-> TRUE, appended |-> appended]

\* a variant that expands every cell that is not a mine, numbered or not
loop_body_expand_numbers(qu, rev, flg) ==
    LET cur == Head(qu)
        rest == Tail(qu)
    IN  IF rev[wrap(cur)]
        THEN [queue |-> rest, revealed |-> rev, marked |-> FALSE,
              appended |-> <<>>]
        ELSE LET rev1 == [rev EXCEPT ![wrap(cur)] = TRUE]
                 open(p) == ~rev1[p] /\ ~flg[p]
                 appended == IF board[wrap(cur)] >= 0
                             THEN SelectSeq(get_adjacent_cells(cur[1], cur[2]),
                                            open)
                             ELSE <<>>
             IN  [queue |-> rest \o appended, revealed |-> rev1,
                  marked |-> TRUE, appended |-> appended]

\* a variant in which a zero cell appends nothing, so only the target of
\* the call is revealed
loop_body_no_expand(qu, rev, flg) ==
    LET cur == Head(qu)
        rest == Tail(qu)
    IN  IF rev[wrap(cur)]
        THEN [queue |-> rest, revealed |-> rev, marked |-> FALSE,
              appended |-> <<>>]
        ELSE [queue |-> rest, revealed |-> [rev EXCEPT ![wrap(cur)] = TRUE],
              marked |-> TRUE, appended |-> <<>>]

\* a variant without the continue: a cell popped a second time is marked
\* and expanded again
loop_body_no_skip(qu, rev, flg) ==
    LET cur == Head(qu)
        rest == Tail(qu)
        rev1 == [rev EXCEPT ![wrap(cur)] = TRUE]
        open(p) == ~rev1[p] /\ ~flg[p]
        appended == IF board[wrap(cur)] = 0
                    THEN SelectSeq(get_adjacent_cells(cur[1], cur[2]), open)
                    ELSE <<>>
    IN  [queue |-> rest \o appended, revealed |-> rev1,
         marked |-> TRUE, appended |-> appended]

\* one iteration of the while loop of reveal_cell: queue.pop(0), the
\* continue on a cell revealed meanwhile, the mark, and the neighbours a
\* zero cell appends; qu is the queue before the iteration.  marked tells
\* whether the iteration set revealed[cr][cc]; appended are the cells it
\* appended.
loop_body(qu, rev, flg) ==
    LET cur == Head(qu)
        rest == Tail(qu)
    IN  IF rev[wrap(cur)]
        THEN [queue |-> rest, revealed |-> rev, marked |-> FALSE,
              appended |-> <<>>]
        ELSE LET rev1 == [rev EXCEPT ![wrap(cur)] = TRUE]
                 open(p) == ~rev1[p] /\ ~flg[p]
                 appended == IF board[wrap(cur)] = 0
                             THEN SelectSeq(get_adjacent_cells(cur[1], cur[2]),
                                            open)
                             ELSE <<>>
             IN  [queue |-> rest \o appended, revealed |-> rev1,
                  marked |-> TRUE, appended |-> appended]

\* the while loop of reveal_cell on the FIFO queue, run to its end
RECURSIVE reveal_loop(_, _, _)
reveal_loop(qu, rev, flg) ==
    IF qu = <<>> THEN rev
    ELSE LET b == loop_body(qu, rev, flg)
         IN  reveal_loop(b.queue, b.revealed, flg)

\* a variant whose guard looks at revealed only and not at the flag
reveal_cell_ignoring_flag(rev, flg, row, coll) ==
    IF rev[wrap(<<row, coll>>)]
    THEN [ret |-> FALSE, revealed |-> rev]
    ELSE [ret |-> TRUE, revealed |-> reveal_loop(<<<<row, coll>>>>, rev, flg)]

\* a variant that starts every call from an all-hidden grid
reveal_cell_fresh_grid(rev, flg, row, coll) ==
    IF rev[wrap(<<row, coll>>)] \/ flg[wrap(<<row, coll>>)]
    THEN [ret |-> FALSE, revealed |-> rev]
    ELSE [ret |-> TRUE,
          revealed |-> reveal_loop(<<<<row, coll>>>>, blank_marks, flg)]

\* reveal_cell: the return value and the revealed grid it leaves
reveal_cell(rev, flg, row, coll) ==
    IF rev[wrap(<<row, coll>>)] \/ flg[wrap(<<row, coll>>)]
    THEN [ret |-> FALSE, revealed |-> rev]
    ELSE [ret |-> TRUE, revealed |-> reveal_loop(<<<<row, coll>>>>, rev, flg)]

\* a variant that asks for every cell, mines included, to be revealed
RECURSIVE is_win_scan_every_cell(_, _)
is_win_scan_every_cell(k, rev) ==
    IF k > rows * cols THEN TRUE
    ELSE IF ~rev[all_positions_full[k]] THEN FALSE
         ELSE is_win_scan_every_cell(k + 1, rev)

\* is_win: the row-major scan with its early return
RECURSIVE is_win_scan(_, _)
is_win_scan(k, rev) ==
    IF k > rows * cols THEN TRUE
    ELSE LET p == all_positions_full[k]
         IN  IF p \notin mine_positions /\ ~rev[p] THEN FALSE
             ELSE is_win_scan(k + 1, rev)

is_win(rev) == is_win_scan(1, rev)

(* ---- Minesweeper (front end) ------------------------------------------ *)

visible_rows == Min(VISIBLE_SIZE, rows)
visible_cols == Min(VISIBLE_SIZE, cols)

\* the last statement of handle_click
win_check(st) ==
    IF is_win(st.revealed)
    THEN [st EXCEPT !.game_over = TRUE, !.win = TRUE]
    ELSE st

\* a variant that flips the flags of the whole row
toggle_flag_row(flg, row, col) ==
    [p \in Cells |-> IF p[1] = row THEN ~flg[p] ELSE flg[p]]

\* the right-click branch of handle_click:
\* flags[row][col] = not flags[row][col]
toggle_flag(flg, row, col) == [flg EXCEPT ![wrap(<<row, col>>)] = ~@]

\* handle_click(pos, right_click) on the state st = [revealed, flags,
\* game_over, win]; pos is <<x, y>> in pixels.  click_neighbours is the
\* for loop that clicks the cells around a revealed zero cell.
RECURSIVE handle_click(_, _, _), click_neighbours(_, _, _)

\* a variant that treats a revealed mine like a numbered cell
after_reveal_mine_ignored(st1, row, col) ==
    IF get_adjacent(row, col) = 0
    THEN click_neighbours(st1, get_adjacent_cells(row, col), 1)
    ELSE st1

\* the branch of handle_click taken once reveal_cell(row, col) has returned
\* True: a mine ends the game as a loss, a zero cell clicks its neighbours
after_reveal(st1, row, col) ==
    IF is_mine(row, col)
    THEN [st1 EXCEPT !.game_over = TRUE, !.win = FALSE]
    ELSE IF get_adjacent(row, col) = 0
    THEN click_neighbours(st1, get_adjacent_cells(row, col), 1)
    ELSE st1

\* a variant that goes on handling clicks once the game is over
handle_click_after_end(st, pos, right_click) ==
    LET grid_x == pos[1] - GRID_X
        grid_y == pos[2] - GRID_Y
    IN
    IF grid_x < 0 \/ grid_y < 0 THEN st
    ELSE
    LET col == (grid_x \div CELL_SIZE) + offset[2]
        row == (grid_y \div CELL_SIZE) + offset[1]
    IN
    IF row >= rows \/ col >= cols THEN st
    ELSE IF right_click
    THEN win_check([st EXCEPT !.flags = toggle_flag(st.flags, row, col)])
    ELSE
    LET rv == reveal_cell(st.revealed, st.flags, row, col)
    IN
    IF ~rv.ret THEN st
    ELSE
    win_check(after_reveal([st EXCEPT !.revealed = rv.revealed], row, col))

handle_click(st, pos, right_click) ==
    IF st.game_over THEN st
    ELSE
    LET grid_x == pos[1] - GRID_X
        grid_y == pos[2] - GRID_Y
    IN
    IF grid_x < 0 \/ grid_y < 0 THEN st
    ELSE
    LET col == (grid_x \div CELL_SIZE) + offset[2]
        row == (grid_y \div CELL_SIZE) + offset[1]
    IN
    IF row >= rows \/ col >= cols THEN st
    ELSE IF right_click
    THEN win_check([st EXCEPT !.flags = toggle_flag(st.flags, row, col)])
    ELSE
    LET rv == reveal_cell(st.revealed, st.flags, row, col)
    IN
    IF ~rv.ret THEN st
    ELSE
    win_check(after_reveal([st EXCEPT !.revealed = rv.revealed], row, col))

click_neighbours(st, cells, k) ==
    IF k > Len(cells) THEN st
    ELSE LET nr == cells[k][1]
             nc == cells[k][2]
             screen_x == (nc - offset[2]) * CELL_SIZE
             screen_y == (nr - offset[1]) * CELL_SIZE
         IN  click_neighbours(
                 handle_click(st, <<screen_x + GRID_X, screen_y + GRID_Y>>, FALSE),
                 cells, k + 1)

\* move_view(dx, dy)
move_view(dx, dy) ==
    LET new_row == offset[1] + dy
        new_col == offset[2] + dx
        max_row == Max(0, rows - visible_rows)
        max_col == Max(0, cols - visible_cols)
        off1 == IF 0 <= new_row /\ new_row <= max_row
                THEN <<new_row, offset[2]>> ELSE offset
    IN  IF 0 <= new_col /\ new_col <= max_col
        THEN <<off1[1], new_col>> ELSE off1

\* the cell handle_click maps a pixel position to (no bounds check)
cell_at(pos) ==
    <<((pos[2] - GRID_Y) \div CELL_SIZE) + offset[1],
      ((pos[1] - GRID_X) \div CELL_SIZE) + offset[2]>>

\* pixel positions of mouse events that run() passes on: points of
\* grid_area, one per visible cell, at the left edge and the bottom edge of
\* the cell
ClickPositions ==
    {<<GRID_X + vc * CELL_SIZE, GRID_Y + vr * CELL_SIZE + (CELL_SIZE - 1)>> :
        vc \in 0 .. visible_cols - 1, vr \in 0 .. visible_rows - 1}

(* ---- the state machine ------------------------------------------------ *)

\* the fields of a game that has not been constructed yet
NoGame ==
    /\ board = blank_board
    /\ mine_positions = {}
    /\ revealed = blank_marks
    /\ flags = blank_marks
    /\ game_over = FALSE
    /\ win = FALSE
    /\ offset = <<0, 0>>
    /\ ret = "none"
    /\ first_click = None
    /\ queue = <<>>
    /\ marks = blank_counts
    /\ enqueues = blank_counts
    /\ dequeues = 0
    /\ asked = {}

\* __main__ has the dimensions and the mine count, no game exists yet
Init ==
    /\ pc = "start"
    /\ rows \in 1 .. MaxRows
    /\ cols \in 1 .. MaxCols
    /\ rows * cols <= MaxCells
    /\ mines \in 0 .. MaxMines
    /\ NoGame

\* Minesweeper.__init__ with MinesweeperLogic.__init__ and
\* initialize_board(): place_mines() without a first click, then
\* calculate_numbers().  A ValueError of random.randint leaves no game.
Construct ==
    /\ pc = "start"
    /\ \E draws \in DrawSet(rows * cols, mines) :
          LET pm == place_mines(None, draws)
          IN  IF pm.ok
              THEN /\ pc' = "run"
                   /\ mine_positions' = pm.mine_positions
                   /\ board' = calculate_numbers(pm.board)
              ELSE /\ pc' = "crashed"
                   /\ UNCHANGED <<mine_positions, board>>
    /\ UNCHANGED <<rows, cols, mines, revealed, flags, game_over, win,
                   offset, ret, first_click, loop_vars, asked>>

game_state == [revealed |-> revealed, flags |-> flags,
               game_over |-> game_over, win |-> win]

\* what the reveal_cell call made directly by the click returned
click_ret(pos, right_click) ==
    IF game_over \/ right_click THEN "none"
    ELSE LET p == cell_at(pos)
         IN  IF p[1] >= rows \/ p[2] >= cols THEN "none"
             ELSE IF reveal_cell(revealed, flags, p[1], p[2]).ret
                  THEN "True" ELSE "False"

\* a MOUSEBUTTONDOWN event inside grid_area, button 1 or 3
Click(pos, right_click) ==
    /\ pc = "run"
    /\ LET st == handle_click(game_state, pos, right_click)
       IN  /\ revealed' = st.revealed
           /\ flags' = st.flags
           /\ game_over' = st.game_over
           /\ win' = st.win
    /\ ret' = click_ret(pos, right_click)
    /\ UNCHANGED <<pc, rows, cols, mines, board, mine_positions, offset,
                   first_click, loop_vars, asked>>

LeftClick == \E pos \in ClickPositions : Click(pos, FALSE)

flag_count == Cardinality({p \in Cells : flags[p]})

\* the player sets a flag only while fewer than MaxFlags are on the board
RightClick ==
    \E pos \in ClickPositions :
        /\ flags[cell_at(pos)] \/ flag_count < MaxFlags
        /\ Click(pos, TRUE)

\* an arrow key
ArrowKey ==
    /\ pc = "run"
    /\ \E d \in {<<-1, 0>>, <<1, 0>>, <<0, -1>>, <<0, 1>>} :
          offset' = move_view(d[1], d[2])
    /\ UNCHANGED <<pc, rows, cols, mines, board, mine_positions, revealed,
                   flags, game_over, win, ret, first_click, loop_vars, asked>>

\* draw_timer in a frame in which more than 120 s have elapsed
TimerExpired ==
    /\ pc = "run"
    /\ game_over' = TRUE
    /\ win' = FALSE
    /\ UNCHANGED <<pc, rows, cols, mines, board, mine_positions, revealed,
                   flags, offset, ret, first_click, loop_vars, asked>>

\* a variant in which the flags of the old game stay on the board
EnterKey_keep_flags ==
    /\ pc = "run"
    /\ game_over
    /\ pc' = "start"
    /\ board' = blank_board
    /\ mine_positions' = {}
    /\ revealed' = blank_marks
    /\ game_over' = FALSE
    /\ win' = FALSE
    /\ offset' = <<0, 0>>
    /\ ret' = "none"
    /\ UNCHANGED <<rows, cols, mines, flags, first_click, loop_vars, asked>>

\* Enter on a finished game: run() returns True and __main__ discards the
\* game; the next Construct builds the new one
EnterKey ==
    /\ pc = "run"
    /\ game_over
    /\ pc' = "start"
    /\ board' = blank_board
    /\ mine_positions' = {}
    /\ revealed' = blank_marks
    /\ flags' = blank_marks
    /\ game_over' = FALSE
    /\ win' = FALSE
    /\ offset' = <<0, 0>>
    /\ ret' = "none"
    /\ UNCHANGED <<rows, cols, mines, first_click, loop_vars, asked>>

Next ==
    \/ Construct
    \/ LeftClick
    \/ RightClick
    \/ ArrowKey
    \/ TimerExpired
    \/ EnterKey

Spec == Init /\ [][Next]_vars

(* ---- the front end of src/game.py -------------------------------------- *)

\* handle_click(pos, right_click) of src/game.py on the state st.  The
\* grid is drawn from the window's origin, so the cell is pos // CELL_SIZE
\* plus the offset; the clicks on the cells around a revealed zero cell
\* are made at (nc * CELL_SIZE, nr * CELL_SIZE), the offset not
\* subtracted.
RECURSIVE game_handle_click(_, _, _), game_click_neighbours(_, _, _)

game_after_reveal(st1, r, c) ==
    IF is_mine(r, c)
    THEN [st1 EXCEPT !.game_over = TRUE, !.win = FALSE]
    ELSE IF get_adjacent(r, c) = 0
    THEN game_click_neighbours(st1, get_adjacent_cells(r, c), 1)
    ELSE st1

game_handle_click(st, pos, right_click) ==
    IF st.game_over THEN st
    ELSE
    LET c == (pos[1] \div CELL_SIZE) + offset[2]
        r == (pos[2] \div CELL_SIZE) + offset[1]
    IN
    IF r >= rows \/ c >= cols THEN st
    ELSE IF right_click
    THEN win_check([st EXCEPT !.flags = toggle_flag(st.flags, r, c)])
    ELSE
    LET rv == reveal_cell(st.revealed, st.flags, r, c)
    IN
    IF ~rv.ret THEN st
    ELSE
    win_check(game_after_reveal([st EXCEPT !.revealed = rv.revealed], r, c))

game_click_neighbours(st, cells, k) ==
    IF k > Len(cells) THEN st
    ELSE LET nr == cells[k][1]
             nc == cells[k][2]
         IN  game_click_neighbours(
                 game_handle_click(st, <<nc * CELL_SIZE, nr * CELL_SIZE>>, FALSE),
                 cells, k + 1)

\* the cell game.py's handle_click maps a pixel position to
game_cell_at(pos) ==
    <<(pos[2] \div CELL_SIZE) + offset[1], (pos[1] \div CELL_SIZE) + offset[2]>>

\* pixel positions of the mouse events game.py's run() passes on, which
\* is every MOUSEBUTTONDOWN in the window: one point per visible cell, and
\* two per column in the 50-pixel strip below the grid
GameClickPositions ==
    {<<vc * CELL_SIZE, vr * CELL_SIZE + (CELL_SIZE - 1)>> :
        vc \in 0 .. visible_cols - 1, vr \in 0 .. visible_rows - 1}
    \cup {<<vc * CELL_SIZE, visible_rows * CELL_SIZE + k>> :
             vc \in 0 .. visible_cols - 1, k \in {0, 49}}

\* what the reveal_cell call made directly by the click returned
game_click_ret(pos, right_click) ==
    IF game_over \/ right_click THEN "none"
    ELSE LET p == game_cell_at(pos)
         IN  IF p[1] >= rows \/ p[2] >= cols THEN "none"
             ELSE IF reveal_cell(revealed, flags, p[1], p[2]).ret
                  THEN "True" ELSE "False"

\* a MOUSEBUTTONDOWN event, button 1 or 3
GameClick(pos, right_click) ==
    /\ pc = "run"
    /\ LET st == game_handle_click(game_state, pos, right_click)
       IN  /\ revealed' = st.revealed
           /\ flags' = st.flags
           /\ game_over' = st.game_over
           /\ win' = st.win
    /\ ret' = game_click_ret(pos, right_click)
    /\ UNCHANGED <<pc, rows, cols, mines, board, mine_positions, offset,
                   first_click, loop_vars, asked>>

GameLeftClick == \E pos \in GameClickPositions : GameClick(pos, FALSE)

\* the player sets a flag only while fewer than MaxFlags are on the board
GameRightClick ==
    \E pos \in GameClickPositions :
        /\ IF game_cell_at(pos) \in Cells
           THEN flags[game_cell_at(pos)] \/ flag_count < MaxFlags
           ELSE TRUE
        /\ GameClick(pos, TRUE)

\* run() of src/game.py: the clicks above; the arrow keys and Enter are
\* handled as in src/Minesweeper.py; draw_timer sets no field
NextGame ==
    \/ Construct
    \/ GameLeftClick
    \/ GameRightClick
    \/ ArrowKey
    \/ EnterKey

SpecGame == Init /\ [][NextGame]_vars

(* ---- the engine called directly --------------------------------------- *)

\* a caller holds the arguments of MinesweeperLogic(rows, cols, mines)
InitEngine ==
    /\ pc = "start"
    /\ rows \in 1 .. EngRows
    /\ cols \in 1 .. EngCols
    /\ rows * cols <= EngCells
    /\ mines \in 0 .. MaxMines
    /\ NoGame

\* logic.reveal_cell(row, coll) with in-bounds arguments
Reveal(row, coll) ==
    /\ pc = "run"
    /\ LET rv == reveal_cell(revealed, flags, row, coll)
       IN  /\ revealed' = rv.revealed
           /\ ret' = IF rv.ret THEN "True" ELSE "False"
    /\ UNCHANGED <<pc, rows, cols, mines, board, mine_positions, flags,
                   game_over, win, offset, first_click, loop_vars, asked>>

RevealAny == \E p \in Cells : Reveal(p[1], p[2])

NextEngine ==
    \/ Construct
    \/ RevealAny

SpecEngine == InitEngine /\ [][NextEngine]_vars

\* _initial_setup(r, c) of src/game.py, line 145, on a new engine:
\* place_mines(r, c), then calculate_numbers().  A ValueError of
\* random.randint leaves the fields as the loop had them and, as nothing
\* in the program catches it, ends the program.
InitialSetup(r, c) ==
    /\ pc = "run"
    /\ first_click = None
    /\ \E draws \in DrawSet(Len(candidate_pool(<<r, c>>)), mines) :
          LET pm == place_mines(<<r, c>>, draws)
          IN  IF pm.ok
              THEN /\ pc' = "run"
                   /\ mine_positions' = pm.mine_positions
                   /\ board' = calculate_numbers(pm.board)
              ELSE /\ pc' = "crashed"
                   /\ mine_positions' = pm.mine_positions
                   /\ board' = pm.board
    /\ first_click' = <<r, c>>
    /\ UNCHANGED <<rows, cols, mines, revealed, flags, game_over, win,
                   offset, ret, loop_vars, asked>>

InitialSetupAny == \E p \in Cells : InitialSetup(p[1], p[2])

NextSafe ==
    \/ Construct
    \/ InitialSetupAny

SpecSafe == InitEngine /\ [][NextSafe]_vars

(* ---- the win-detection scenario: 3x3, one mine ------------------------- *)

\* a caller builds MinesweeperLogic(3, 3, 1)
InitWin ==
    /\ pc = "start"
    /\ rows = 3
    /\ cols = 3
    /\ mines = 1
    /\ NoGame

\* the caller goes through the non-mine cells in an order of its choice
\* and calls reveal_cell once for each; asked holds the cells done
RevealNext(row, coll) ==
    /\ pc = "run"
    /\ ~is_mine(row, coll)
    /\ <<row, coll>> \notin asked
    /\ LET rv == reveal_cell(revealed, flags, row, coll)
       IN  /\ revealed' = rv.revealed
           /\ ret' = IF rv.ret THEN "True" ELSE "False"
    /\ asked' = asked \cup {<<row, coll>>}
    /\ UNCHANGED <<pc, rows, cols, mines, board, mine_positions, flags,
                   game_over, win, offset, first_click, loop_vars>>

RevealNextAny == \E p \in Cells : RevealNext(p[1], p[2])

NextWin ==
    \/ Construct
    \/ RevealNextAny

SpecWin == InitWin /\ [][NextWin]_vars

(* ---- engine calls with any integer arguments -------------------------- *)

\* the values a caller passes for an index of a list of length n: the
\* valid ones, the negative ones Python accepts, and one beyond each end
ArgRange(n) == (-n - 1) .. n

\* reveal_cell(row, coll): revealed[row][coll] at line 151 raises
\* IndexError before anything is written
RevealRaw(row, coll) ==
    /\ pc = "run"
    /\ IF in_index(row, rows) /\ in_index(coll, cols)
       THEN LET rv == reveal_cell(revealed, flags, row, coll)
            IN  /\ revealed' = rv.revealed
                /\ ret' = IF rv.ret THEN "True" ELSE "False"
       ELSE /\ ret' = "IndexError"
            /\ UNCHANGED revealed
    /\ UNCHANGED <<pc, rows, cols, mines, board, mine_positions, flags,
                   game_over, win, offset, first_click, loop_vars, asked>>

\* is_mine(row, coll): a membership test, no list is indexed
IsMineRaw(row, coll) ==
    /\ pc = "run"
    /\ ret' = IF is_mine(row, coll) THEN "True" ELSE "False"
    /\ UNCHANGED <<pc, rows, cols, mines, board, mine_positions, revealed,
                   flags, game_over, win, offset, first_click, loop_vars,
                   asked>>

\* get_adjacent(row, coll): board[row][coll]
GetAdjacentRaw(row, coll) ==
    /\ pc = "run"
    /\ ret' = IF in_index(row, rows) /\ in_index(coll, cols)
              THEN ToString(get_adjacent(row, coll))
              ELSE "IndexError"
    /\ UNCHANGED <<pc, rows, cols, mines, board, mine_positions, revealed,
                   flags, game_over, win, offset, first_click, loop_vars,
                   asked>>

\* flags[row][col] = not flags[row][col]
ToggleRaw(row, col) ==
    /\ pc = "run"
    /\ IF in_index(row, rows) /\ in_index(col, cols)
       THEN /\ flags[wrap(<<row, col>>)] \/ flag_count < MaxFlags
            /\ flags' = toggle_flag(flags, row, col)
            /\ ret' = "none"
       ELSE /\ ret' = "IndexError"
            /\ UNCHANGED flags
    /\ UNCHANGED <<pc, rows, cols, mines, board, mine_positions, revealed,
                   game_over, win, offset, first_click, loop_vars, asked>>

RawCall ==
    \E row \in ArgRange(rows), coll \in ArgRange(cols) :
        \/ RevealRaw(row, coll)
        \/ IsMineRaw(row, coll)
        \/ GetAdjacentRaw(row, coll)
        \/ ToggleRaw(row, coll)

NextRaw ==
    \/ Construct
    \/ RawCall

SpecRaw == Init /\ [][NextRaw]_vars

(* ---- reveal_cell, one iteration of its loop at a time ------------------ *)

\* the caller flips a flag: flags[row][col] = not flags[row][col]
ToggleFlag(row, col) ==
    /\ pc = "run"
    /\ flags[<<row, col>>] \/ flag_count < MaxFlagsLoop
    /\ flags' = toggle_flag(flags, row, col)
    /\ UNCHANGED <<pc, rows, cols, mines, board, mine_positions, revealed,
                   game_over, win, offset, ret, first_click, loop_vars,
                   asked>>

ToggleFlagAny == \E p \in Cells : ToggleFlag(p[1], p[2])

\* reveal_cell(row, coll) up to the while loop: the guard returns False,
\* or the queue is set to [(row, coll)]
CallReveal(row, coll) ==
    /\ pc = "run"
    /\ IF revealed[<<row, coll>>] \/ flags[<<row, coll>>]
       THEN /\ ret' = "False"
            /\ UNCHANGED <<pc, loop_vars>>
       ELSE /\ pc' = "loop"
            /\ ret' = "none"
            /\ queue' = <<<<row, coll>>>>
            /\ enqueues' = [blank_counts EXCEPT ![<<row, coll>>] = 1]
            /\ marks' = blank_counts
            /\ dequeues' = 0
    /\ UNCHANGED <<rows, cols, mines, board, mine_positions, revealed, flags,
                   game_over, win, offset, first_click, asked>>

CallRevealAny == \E p \in Cells : CallReveal(p[1], p[2])

\* how many times cell p occurs in the sequence s
Occurrences(s, p) == Cardinality({k \in 1 .. Len(s) : s[k] = p})

\* one iteration of while queue
LoopStep ==
    /\ pc = "loop"
    /\ queue # <<>>
    /\ LET b == loop_body(queue, revealed, flags)
           cur == Head(queue)
       IN  /\ queue' = b.queue
           /\ revealed' = b.revealed
           /\ marks' = IF b.marked THEN [marks EXCEPT ![wrap(cur)] = @ + 1]
                       ELSE marks
           /\ enqueues' = [p \in Cells |->
                             enqueues[p] + Occurrences(b.appended, p)]
           /\ dequeues' = dequeues + 1
    /\ UNCHANGED <<pc, rows, cols, mines, board, mine_positions, flags,
                   game_over, win, offset, ret, first_click, asked>>

\* the queue is empty: return True
LoopExit ==
    /\ pc = "loop"
    /\ queue = <<>>
    /\ pc' = "run"
    /\ ret' = "True"
    /\ marks' = blank_counts
    /\ enqueues' = blank_counts
    /\ dequeues' = 0
    /\ UNCHANGED <<rows, cols, mines, board, mine_positions, revealed, flags,
                   game_over, win, offset, first_click, queue, asked>>

NextLoop ==
    \/ Construct
    \/ ToggleFlagAny
    \/ CallRevealAny
    \/ LoopStep
    \/ LoopExit

\* reveal_cell runs on the thread that called it, so a loop that has a
\* next iteration, or its return, to execute does execute it
SpecLoop ==
    /\ Init
    /\ [][NextLoop]_vars
    /\ WF_vars(LoopStep)
    /\ WF_vars(LoopExit)

(* ---- notions the properties are stated with --------------------------- *)

Abs(x) == IF x < 0 THEN -x ELSE x

\* p and q are distinct cells that touch by a side or a corner
Adjacent(p, q) ==
    /\ p # q
    /\ Abs(p[1] - q[1]) <= 1
    /\ Abs(p[2] - q[2]) <= 1

MineNeighbours(p) == {q \in mine_positions : Adjacent(p, q)}

RevealedCells == {p \in Cells : revealed[p]}

NoFlags == \A p \in Cells : ~flags[p]

NoneRevealed == \A p \in Cells : ~revealed[p]

AllSafeRevealed == \A p \in Cells \ mine_positions : revealed[p]

\* the 8-connected region of zero cells around the cells of S
RECURSIVE ZeroClosure(_)
ZeroClosure(S) ==
    LET T == S \cup {q \in Cells : board[q] = 0 /\ \E z \in S : Adjacent(z, q)}
    IN  IF T = S THEN S ELSE ZeroClosure(T)

\* a region with the non-zero cells that touch it
WithBorder(S) ==
    S \cup {q \in Cells : board[q] # 0 /\ \E z \in S : Adjacent(z, q)}

(* ---- properties -------------------------------------------------------- *)

\* C1: a construction with mines <= rows*cols succeeds, and afterwards
\* mine_positions holds exactly `mines` distinct cells of the grid and
\* board is -1 exactly on them.
C1_MinesPlaced ==
    /\ pc = "crashed" => mines > rows * cols
    /\ pc = "run" =>
          /\ mines <= rows * cols
          /\ mine_positions \subseteq Cells
          /\ Cardinality(mine_positions) = mines
          /\ \A p \in Cells : (board[p] = -1) <=> (p \in mine_positions)

C1_Witness ==
    /\ pc = "run"
    /\ mines >= 2
    /\ rows * cols > mines
    /\ Cardinality(mine_positions) = mines

\* C2: after construction the adjacent count of every non-mine cell is the
\* number of mines among the cells that touch it (no wraparound, the cell
\* itself not counted), a value in 0..8.
C2_AdjacentCount ==
    pc = "run" =>
        \A p \in Cells \ mine_positions :
            /\ get_adjacent(p[1], p[2]) = Cardinality(MineNeighbours(p))
            /\ get_adjacent(p[1], p[2]) \in 0 .. 8

C2_Witness ==
    /\ pc = "run"
    /\ rows = 3 /\ cols = 3
    /\ <<1, 1>> \notin mine_positions
    /\ get_adjacent(1, 1) >= 2
    /\ \E p \in Cells : get_adjacent(p[1], p[2]) = 0 /\ (p[1] = 0 \/ p[2] = 0)

\* C3: on a board with no flag and no revealed cell, reveal_cell on a zero
\* cell reveals exactly the 8-connected region of zero cells around it and
\* the non-zero cells touching that region.
C3_FloodFill ==
    [][\A p \in Cells :
          (/\ pc = "run" /\ NoFlags /\ NoneRevealed
           /\ board[p] = 0
           /\ Reveal(p[1], p[2]))
          => (/\ ret' = "True"
              /\ RevealedCells' = WithBorder(ZeroClosure({p})))]_vars

C3_Witness ==
    /\ pc = "run"
    /\ ret = "True"
    /\ NoFlags
    /\ \E p \in Cells :
          /\ board[p] = 0
          /\ RevealedCells = WithBorder(ZeroClosure({p}))
          /\ \E q \in RevealedCells : board[q] > 0
          /\ \E q \in Cells \ mine_positions : ~revealed[q]

\* C4: no cell is both revealed and flagged, in any state reached by left
\* and right clicks.
C4_NoRevealedFlagged ==
    \A p \in Cells : ~(revealed[p] /\ flags[p])

\* is_win() in the current state, and with the mine cells all shown or all
\* hidden
MinesShown == [p \in Cells |-> revealed[p] \/ p \in mine_positions]
MinesHidden == [p \in Cells |-> revealed[p] /\ p \notin mine_positions]

\* C5: is_win() is true exactly when every non-mine cell is revealed; the
\* revealed state of the mine cells does not change the answer (is_win
\* does not read the flags).
C5_IsWin ==
    pc = "run" =>
        /\ is_win(revealed) <=> AllSafeRevealed
        /\ is_win(MinesShown) <=> AllSafeRevealed
        /\ is_win(MinesHidden) <=> AllSafeRevealed

C5_Witness ==
    /\ pc = "run"
    /\ is_win(revealed)
    /\ win
    /\ \E p \in Cells : flags[p]
    /\ \E p \in mine_positions : ~revealed[p]
    /\ \E p \in Cells \ mine_positions : revealed[p]

\* a step is a left click
IsLeftClick == \E pos \in ClickPositions : Click(pos, FALSE)

\* C6: win is true only if every non-mine cell is revealed, and after any
\* left click that leaves every non-mine cell revealed game_over and win
\* are both true.
C6_WinDeclared ==
    [][/\ win' => AllSafeRevealed'
       /\ (IsLeftClick /\ AllSafeRevealed') => (game_over' /\ win')]_vars

\* C7 as stated: after a left click on a hidden, unflagged mine cell, on
\* any board, reveal_cell has succeeded, the cell is a revealed mine,
\* is_win() is false, game_over is true and win is false.
C7_MineHitLoss_AnyBoard ==
    [][\A pos \in ClickPositions :
          LET p == cell_at(pos)
          IN  (/\ pc = "run"
               /\ ~revealed[p] /\ ~flags[p]
               /\ is_mine(p[1], p[2])
               /\ Click(pos, FALSE))
              => (/\ ret' = "True"
                  /\ revealed'[p]
                  /\ is_mine(p[1], p[2])
                  /\ ~is_win(revealed')
                  /\ game_over' /\ ~win')]_vars

\* C7 amended: the same for a left click handled while the game is not
\* over, on a board with at least one non-mine cell (mines < rows*cols).
C7_MineHitLoss ==
    [][\A pos \in ClickPositions :
          LET p == cell_at(pos)
          IN  (/\ pc = "run"
               /\ ~game_over
               /\ mines < rows * cols
               /\ ~revealed[p] /\ ~flags[p]
               /\ is_mine(p[1], p[2])
               /\ Click(pos, FALSE))
              => (/\ ret' = "True"
                  /\ revealed'[p]
                  /\ is_mine(p[1], p[2])
                  /\ ~is_win(revealed')
                  /\ game_over' /\ ~win')]_vars

C7_Witness ==
    /\ pc = "run"
    /\ mines < rows * cols
    /\ ret = "True"
    /\ game_over /\ ~win
    /\ \E p \in mine_positions : revealed[p]

\* the cells place_mines may use when (r, c) is the first click
PoolSize(fc) == Cardinality({q \in Cells : q # fc /\ ~Adjacent(fc, q)})

\* C8: the first left click of a game does not reveal a mine.  The
\* claim covers every board; it is stated here for the boards on which it
\* can hold at all, those where the mines fit outside the clicked cell and
\* the cells touching it.
C8_FirstClickSafe ==
    [][\A pos \in ClickPositions :
          (/\ pc = "run"
           /\ NoneRevealed
           /\ mines <= PoolSize(cell_at(pos))
           /\ Click(pos, FALSE))
          => (\A p \in mine_positions : ~revealed'[p])]_vars

\* C9: place_mines with a first-click position and a mine count within
\* the reduced pool succeeds and leaves exactly `mines` mines, none of them
\* on the first-click cell or on a cell touching it.
C9_SafeOrigin ==
    first_click # None =>
        /\ pc = "crashed" => mines > PoolSize(first_click)
        /\ pc = "run" =>
              /\ mines <= PoolSize(first_click)
              /\ first_click \notin mine_positions
              /\ \A q \in Cells : Adjacent(first_click, q) => q \notin mine_positions
              /\ Cardinality(mine_positions) = mines
              /\ \A q \in Cells : (board[q] = -1) <=> (q \in mine_positions)

C9_Witness ==
    /\ pc = "run"
    /\ first_click # None
    /\ mines >= 2
    /\ Cardinality(mine_positions) = mines
    /\ \E q \in Cells : Adjacent(first_click, q)

\* C10: reveal_cell on a revealed or flagged cell returns False and
\* changes nothing; so does a second reveal_cell on a cell just revealed.
C10_RevealNoOp ==
    [][\A pos \in ClickPositions :
          LET p == cell_at(pos)
          IN  (/\ pc = "run"
               /\ ~game_over
               /\ revealed[p] \/ flags[p]
               /\ Click(pos, FALSE))
              => (/\ ret' = "False"
                  /\ UNCHANGED <<revealed, flags, board, mine_positions,
                                 game_over, win>>)]_vars

C10_Witness ==
    /\ pc = "run"
    /\ ~game_over
    /\ ret = "False"
    /\ \E p \in Cells : flags[p] /\ ~revealed[p]
    /\ \E p \in Cells : revealed[p] /\ ~flags[p]

\* C11: no step reveals a cell that is flagged and hidden when the step
\* starts, whether a left click is aimed at it or the flood fill and the
\* follow-up clicks of a left click elsewhere reach it; and when a right
\* click has removed the flag from a hidden cell, reveal_cell on that
\* cell returns True and reveals it.
C11_FlaggedStaysHidden ==
    [][(pc = "run" /\ pc' = "run") =>
          \A q \in Cells :
              /\ (flags[q] /\ ~revealed[q]) => ~revealed'[q]
              /\ (flags[q] /\ ~flags'[q] /\ ~revealed'[q]) =>
                     LET rv == reveal_cell(revealed', flags', q[1], q[2])
                     IN  rv.ret /\ rv.revealed[q]]_vars

\* a reveal has flooded up to a flagged cell and left it hidden
C11_Witness ==
    /\ pc = "run"
    /\ ret = "True"
    /\ \E q \in Cells :
          /\ flags[q] /\ ~revealed[q]
          /\ \E z \in Cells : Adjacent(z, q) /\ revealed[z] /\ board[z] = 0

\* C12: within one engine instance revealed only grows: every cell is
\* unrevealed when construction ends, and a cell that is revealed stays
\* revealed through every later reveal and flag toggle.
C12_RevealedMonotone ==
    [][/\ (pc = "start" /\ pc' = "run") => \A p \in Cells : ~revealed'[p]
       /\ (pc = "run" /\ pc' = "run") =>
              \A p \in Cells : revealed[p] => revealed'[p]]_vars

\* a second reveal has added cells to an earlier one, with a flag on the
\* board
C12_Witness ==
    /\ pc = "run"
    /\ ret = "True"
    /\ \E p, q, f \in Cells :
          /\ p # q /\ revealed[p] /\ revealed[q]
          /\ board[p] > 0 /\ board[q] > 0
          /\ flags[f]

\* C13: once the board is built no step changes board or mine_positions;
\* a left click changes none of flags, board and mine_positions; a right
\* click handled on a hidden cell flips the flag of that cell and leaves
\* every other flag, revealed, board and mine_positions as they were.
C13_ClickFrame ==
    [][/\ (pc = "run" /\ pc' = "run") =>
              UNCHANGED <<board, mine_positions, rows, cols, mines>>
       /\ \A pos \in ClickPositions :
              LET p == cell_at(pos)
              IN  /\ (pc = "run" /\ Click(pos, FALSE)) =>
                         UNCHANGED <<flags, board, mine_positions>>
                  /\ (/\ pc = "run"
                      /\ ~game_over
                      /\ ~revealed[p]
                      /\ Click(pos, TRUE)) =>
                         /\ flags'[p] = ~flags[p]
                         /\ \A q \in Cells \ {p} : flags'[q] = flags[q]
                         /\ UNCHANGED <<revealed, board, mine_positions>>]_vars

\* a flag stands on a hidden cell of a board that has a mine, a number
\* and a revealed cell
C13_Witness ==
    /\ pc = "run"
    /\ mine_positions # {}
    /\ \E f, p \in Cells :
          /\ flags[f] /\ ~revealed[f]
          /\ revealed[p] /\ board[p] > 0
          /\ \A q \in Cells \ {f} : ~flags[q]

\* C19: a left click handled on a hidden unflagged cell that is a mine or
\* has a non-zero count makes reveal_cell return True and reveals that
\* cell and no other, whatever its neighbours are.
C19_SingleCellReveal ==
    [][\A pos \in ClickPositions :
          LET p == cell_at(pos)
          IN  (/\ pc = "run"
               /\ ~game_over
               /\ ~revealed[p] /\ ~flags[p]
               /\ board[p] # 0
               /\ Click(pos, FALSE))
              => (/\ ret' = "True"
                  /\ revealed' = [revealed EXCEPT ![p] = TRUE])]_vars

\* a numbered cell is the only revealed cell, next to a hidden zero cell
C19_Witness ==
    /\ pc = "run"
    /\ ret = "True"
    /\ \E p \in Cells :
          /\ RevealedCells = {p}
          /\ board[p] > 0
          /\ \E z \in Cells : Adjacent(p, z) /\ board[z] = 0 /\ ~flags[z]

\* C14 as stated: on the 3x3 board whose only mine is at (0,0), with the
\* caller revealing the non-mine cells one per call, is_win() is false
\* after each of the first seven calls and true after the eighth.
C14_WinOnlyAfterEighth ==
    (pc = "run" /\ mine_positions = {<<0, 0>>}) =>
        (is_win(revealed) <=> Cardinality(asked) = 8)

\* C14: on the 3x3 board whose only mine is at (0,0), with the caller
\* revealing the non-mine cells one per call, is_win() is true exactly
\* when all 8 non-mine cells are revealed, which is from the first call
\* on a cell with count 0 on (its flood fill reveals all 8); only the
\* three cells next to the mine have a non-zero count, so is_win() is
\* true after the fourth call at the latest and after the eighth.
C14_WinAtFirstZeroCell ==
    (pc = "run" /\ mine_positions = {<<0, 0>>}) =>
        /\ is_win(revealed) <=> (RevealedCells = Cells \ mine_positions)
        /\ is_win(revealed) <=> (\E p \in asked : board[p] = 0)
        /\ {p \in Cells : board[p] > 0} = {<<0, 1>>, <<1, 0>>, <<1, 1>>}
        /\ Cardinality(asked) >= 4 => is_win(revealed)

\* the three numbered cells were revealed first and the fourth call won
C14_Witness ==
    /\ pc = "run"
    /\ mine_positions = {<<0, 0>>}
    /\ {<<0, 1>>, <<1, 0>>, <<1, 1>>} \subseteq asked
    /\ Cardinality(asked) = 4
    /\ ret = "True"
    /\ is_win(revealed)

\* C15 as stated: every reveal_cell call that enters its loop leaves it
\* (the queue empties and the call returns); during a call no cell is
\* marked revealed more than once; and a call that returns on a board
\* without mines and without flags leaves every cell revealed.
C15_RevealAllFromAnyState ==
    /\ (pc = "loop") ~> (pc = "run")
    /\ [](\A p \in Cells : marks[p] <= 1)
    /\ [][(pc = "loop" /\ pc' = "run" /\ mines = 0 /\ NoFlags) =>
              \A p \in Cells : revealed'[p]]_vars

\* C15: every reveal_cell call that enters its loop leaves it; during a
\* call no cell is marked revealed more than once; and a call that
\* returns on a board without mines and without flags, on which no cell
\* was revealed when the call started, leaves every cell revealed.
C15_RevealTerminates ==
    /\ (pc = "loop") ~> (pc = "run")
    /\ [](\A p \in Cells : marks[p] <= 1)
    /\ [][(/\ pc = "loop" /\ pc' = "run"
           /\ mines = 0
           /\ NoFlags
           /\ \A p \in Cells : revealed[p] => marks[p] = 1) =>
              \A p \in Cells : revealed'[p]]_vars

\* a call on a 2x2 board without mines and flags is about to return and
\* has marked every cell
C15_Witness ==
    /\ pc = "loop"
    /\ queue = <<>>
    /\ rows = 2 /\ cols = 2
    /\ mines = 0
    /\ NoFlags
    /\ \A p \in Cells : marks[p] = 1

\* the sum of the counts f over the cells S
RECURSIVE SumCounts(_, _)
SumCounts(f, S) ==
    IF S = {} THEN 0
    ELSE LET p == CHOOSE x \in S : TRUE
         IN  f[p] + SumCounts(f, S \ {p})

\* C16: during a reveal_cell call no cell is appended to the queue more
\* than once (the first cell included), so the call appends at most
\* rows*cols times and pops at most rows*cols times.
C16_EnqueuedOnce ==
    pc = "loop" =>
        /\ \A p \in Cells : enqueues[p] <= 1
        /\ SumCounts(enqueues, Cells) <= rows * cols
        /\ dequeues <= rows * cols

\* C17: a call of reveal_cell, is_mine, get_adjacent or the flag toggle
\* whose row is outside 0..rows-1 or whose column is outside 0..cols-1
\* (negative values included) ends in an error and leaves revealed,
\* flags, board and mine_positions as they were.
C17_OutOfRangeRejected ==
    [][\A row \in ArgRange(rows), coll \in ArgRange(cols) :
          (/\ pc = "run"
           /\ <<row, coll>> \notin Cells
           /\ \/ RevealRaw(row, coll)
              \/ IsMineRaw(row, coll)
              \/ GetAdjacentRaw(row, coll)
              \/ ToggleRaw(row, coll))
          => (/\ ret' = "IndexError"
              /\ UNCHANGED <<revealed, flags, board, mine_positions>>)]_vars

\* C18: a construction asked for more mines than the board has cells,
\* and a placement with a safe zone asked for more mines than the pool
\* left by the zone holds, end in an error and no engine is served; an
\* engine that is served holds exactly `mines` mines, and the error
\* occurs only when the mines do not fit.
C18_OversizedMinesFail ==
    LET pool_size == IF first_click = None THEN rows * cols
                     ELSE PoolSize(first_click)
    IN  /\ (pc # "start" /\ mines > pool_size) => pc = "crashed"
        /\ pc = "run" => Cardinality(mine_positions) = mines
        /\ pc = "crashed" => mines > pool_size

\* the mines fit the board but not the pool left by the safe zone, and
\* the placement has failed
C18_Witness ==
    /\ pc = "crashed"
    /\ first_click # None
    /\ 0 < mines /\ mines <= rows * cols
    /\ PoolSize(first_click) > 0

\* C20: the placement runs exactly `mines` iterations; iteration i draws
\* j in 0..i and swaps position j into slot i, so the pool ends as a
\* permutation of itself whose last `mines` slots are the mines; the mines
\* are pairwise distinct; and every subset of the pool of size `mines` is
\* the outcome of some sequence of draws.
C20_PartialShuffle ==
    /\ pc = "start" =>
          \A fc \in {None} \cup Cells :
              LET pool == candidate_pool(fc)
                  n == Len(pool)
                  outcomes == {place_mines(fc, d) : d \in DrawSet(n, mines)}
              IN  mines <= n =>
                    /\ \A pm \in outcomes :
                          /\ pm.ok
                          /\ pm.iterations = mines
                          /\ Cardinality(pm.mine_positions) = mines
                          /\ Len(pm.all_positions) = n
                          /\ Range(pm.all_positions) = Range(pool)
                          /\ pm.mine_positions =
                                {pm.all_positions[k] : k \in n - mines + 1 .. n}
                    /\ {pm.mine_positions : pm \in outcomes}
                          = {S \in SUBSET Range(pool) : Cardinality(S) = mines}
    /\ pc = "run" =>
          /\ Cardinality(mine_positions) = mines
          /\ mine_positions \subseteq Cells

\* a 3x3 board whose two mines are the first two positions of the pool,
\* which only draws that swap them to the end can give
C20_Witness ==
    /\ pc = "run"
    /\ rows = 3 /\ cols = 3
    /\ mines = 2
    /\ mine_positions = {<<0, 0>>, <<0, 1>>}

\* C21: a game is left for a new one only when game_over is true, and
\* the game constructed next has the same rows, cols and mines, game_over
\* and win false, the view at the origin, and every cell unrevealed and
\* unflagged.
C21_RestartFresh ==
    [][/\ (pc = "run" /\ pc' = "start") =>
              (game_over /\ UNCHANGED <<rows, cols, mines>>)
       /\ (pc = "start" /\ pc' = "run") =>
              /\ UNCHANGED <<rows, cols, mines>>
              /\ ~game_over' /\ ~win'
              /\ offset' = <<0, 0>>
              /\ \A p \in Cells : ~revealed'[p] /\ ~flags'[p]
              /\ Cardinality(mine_positions') = mines]_vars

\* a finished game that Enter restarts, with a revealed cell, a flag and
\* a scrolled view to leave behind
C21_Witness ==
    /\ pc = "run"
    /\ game_over
    /\ offset # <<0, 0>>
    /\ \E p, f \in Cells : revealed[p] /\ flags[f]

\* C22: the only step of a reveal_cell call that can reveal a mine is the
\* first iteration of its loop, which marks the cell the call was made
\* for; no later iteration, and no other step, reveals a mine, whatever
\* cells are revealed or flagged.
C22_FloodRevealsNoMine ==
    [][\A m \in mine_positions :
          (revealed'[m] /\ ~revealed[m]) =>
              (pc = "loop" /\ dequeues = 0 /\ queue = <<m>>)]_vars

\* a call has marked several cells on a board with a flag and is about to
\* return with every mine still hidden
C22_Witness ==
    /\ pc = "loop"
    /\ queue = <<>>
    /\ Cardinality({p \in Cells : marks[p] = 1}) >= 2
    /\ mine_positions # {}
    /\ \A m \in mine_positions : ~revealed[m]
    /\ \E f \in Cells : flags[f]

\* C23: a left click handled on a hidden unflagged cell (r, c) leaves
\* revealed as the flood fill of reveal_cell(r, c) leaves it, the clicks
\* handle_click then makes on the cells around a zero cell revealing
\* nothing more, and it ends the game as a loss only if (r, c) is a mine;
\* this for every offset move_view can set.
C23_FollowUpClicksIdle ==
    [][\A pos \in GameClickPositions :
          LET p == game_cell_at(pos)
          IN  (/\ pc = "run"
               /\ ~game_over
               /\ p \in Cells
               /\ ~revealed[p] /\ ~flags[p]
               /\ GameClick(pos, FALSE))
              => (/\ revealed' =
                        reveal_cell(revealed, flags, p[1], p[2]).revealed
                  /\ (game_over' /\ ~win') => is_mine(p[1], p[2]))]_vars

\* C24: once game_over and win are both true, win stays true through every
\* click, key press and timer frame of that game, until the restart.
C24_WinStays ==
    [][(pc = "run" /\ game_over /\ win /\ pc' = "run")
          => (game_over' /\ win')]_vars

\* the mine cells that are revealed
RevealedMines == {m \in mine_positions : revealed[m]}

\* C25: once game_over is true a left or right click changes neither
\* revealed nor flags, and no step leads to a state with more than one
\* mine cell revealed.
C25_GameOverAbsorbing ==
    [][/\ \A pos \in ClickPositions, right_click \in BOOLEAN :
             (pc = "run" /\ game_over /\ Click(pos, right_click))
                 => UNCHANGED <<revealed, flags>>
       /\ Cardinality(RevealedMines') <= 1]_vars

C25_Witness ==
    /\ pc = "run"
    /\ game_over /\ ~win
    /\ ret = "none"
    /\ Cardinality(RevealedMines) = 1
    /\ \E m \in mine_positions : ~revealed[m]
    /\ \E p \in Cells \ mine_positions : ~revealed[p] /\ ~flags[p]
    /\ \E f \in Cells : flags[f]

\* C26: in a state reached by reveal_cell calls alone, no flag ever set,
\* every cell of the grid that touches a revealed cell with adjacent count
\* 0 is revealed.
C26_ZeroCellsClosed ==
    (pc = "run" /\ NoFlags) =>
        \A p \in Cells :
            (revealed[p] /\ board[p] = 0) =>
                \A q \in Cells : Adjacent(p, q) => revealed[q]

C26_Witness ==
    /\ pc = "run"
    /\ NoFlags
    /\ \E p, q \in Cells :
          /\ revealed[p] /\ board[p] = 0
          /\ Adjacent(p, q) /\ revealed[q] /\ board[q] > 0
    /\ \E p, q \in Cells \ mine_positions :
          /\ revealed[p] /\ board[p] > 0
          /\ Adjacent(p, q) /\ ~revealed[q]

TypeOK ==
    /\ pc \in {"start", "run", "loop", "crashed"}
    /\ board \in [Cells -> -1 .. 8]
    /\ mine_positions \subseteq Cells
    /\ revealed \in [Cells -> BOOLEAN]
    /\ flags \in [Cells -> BOOLEAN]
    /\ game_over \in BOOLEAN
    /\ win \in BOOLEAN
    /\ ret \in {"none", "True", "False", "IndexError"}
               \cup {ToString(n) : n \in -1 .. 8}
    /\ queue \in Seq(Cells)
    /\ marks \in [Cells -> 0 .. 1]
    /\ enqueues \in [Cells -> 0 .. 8]
    /\ dequeues \in 0 .. 8 * rows * cols + 1
    /\ asked \subseteq Cells
====
